---- MODULE Spec2Model ----
(***************************************************************************)
(* A model of the Formlabs material compatibility page (src/app/page.tsx): *)
(* the category tree builder, the two category indices, the catalogue      *)
(* normaliser, the selection state with its two repair effects, and the    *)
(* clipboard export with its status-reset timers.                          *)
(*                                                                         *)
(* Text is modelled as sequences of one-character strings so that          *)
(* splitting, joining, capitalising and comparing are computed, not        *)
(* assumed.  The character ">" stands for the single right-pointing angle  *)
(* quotation mark U+203A of the breadcrumb separator.                      *)
(***************************************************************************)
EXTENDS Integers, Sequences, FiniteSets, TLC

VARIABLES
    hierarchyData,          \* the bundled taxonomy document (hierarchy.json)
    materialsData,          \* the bundled printer catalogue (materials.json)
    categoryTree,           \* module constant, page.tsx:205
    categoryCodeMap,        \* module constant, page.tsx:206
    codeToCategoryPaths,    \* module constant, page.tsx:207
    printers,               \* module constant, page.tsx:208
    pc,                     \* position of the module / component life cycle
    selectedPrinterId,      \* useState, page.tsx:400
    selectedCategoryIds,    \* useState, page.tsx:401
    selectedMaterialCode,   \* useState, page.tsx:402
    selectedThickness,      \* useState, page.tsx:403
    copyState,              \* useState, page.tsx:404
    writes,                 \* clipboard writes issued so far, in issue order
    timers,                 \* pending setTimeout callbacks, in expiry order
    last                    \* history: the latest user action and the state it found

vars == <<hierarchyData, materialsData, categoryTree, categoryCodeMap,
          codeToCategoryPaths, printers, pc, selectedPrinterId,
          selectedCategoryIds, selectedMaterialCode, selectedThickness,
          copyState, writes, timers, last>>

dataVars == <<hierarchyData, materialsData, categoryTree, categoryCodeMap,
              codeToCategoryPaths, printers>>

selectionVars == <<selectedPrinterId, selectedCategoryIds,
                   selectedMaterialCode, selectedThickness>>

copyVars == <<copyState, writes, timers>>

(***************************************************************************)
(* Generic sequence helpers                                                *)
(***************************************************************************)
Range(s) == {s[i] : i \in DOMAIN s}

RECURSIVE Concat(_)
\* Array.prototype.flat / flatMap over a sequence of sequences
Concat(ss) == IF ss = <<>> THEN <<>> ELSE Head(ss) \o Concat(Tail(ss))

RECURSIVE JoinWith(_, _)
\* Array.prototype.join(sep) on a sequence of character sequences
JoinWith(parts, sep) ==
    IF parts = <<>> THEN <<>>
    ELSE IF Len(parts) = 1 THEN parts[1]
    ELSE parts[1] \o sep \o JoinWith(Tail(parts), sep)

RECURSIVE dedupe(_)
\* Array.from(new Set(items)): first occurrences, in order
dedupe(items) ==
    IF items = <<>> THEN <<>>
    ELSE LET front == dedupe(SubSeq(items, 1, Len(items) - 1))
             x == items[Len(items)]
         IN IF x \in Range(front) THEN front ELSE Append(front, x)

(***************************************************************************)
(* Characters                                                              *)
(***************************************************************************)
UpperOf == [a |-> "A", b |-> "B", f |-> "F", m |-> "M", o |-> "O", r |-> "R"]

toUpperCase(c) == IF c \in DOMAIN UpperOf THEN UpperOf[c] ELSE c

toLowerCase(c) ==
    IF \E l \in DOMAIN UpperOf : UpperOf[l] = c
    THEN CHOOSE l \in DOMAIN UpperOf : UpperOf[l] = c
    ELSE c

RECURSIVE splitKey(_, _, _)
\* key.split(/[-_]/): cur is the segment being read, acc the segments closed
splitKey(key, cur, acc) ==
    IF key = <<>> THEN Append(acc, cur)
    ELSE IF Head(key) \in {"-", "_"}
         THEN splitKey(Tail(key), <<>>, Append(acc, cur))
         ELSE splitKey(Tail(key), Append(cur, Head(key)), acc)

\* Collation of String.prototype.localeCompare in the root locale, for the
\* characters the model uses: blank and punctuation sort before digits, digits
\* before letters; letter case is a tie-break only (lower case first).
PrimaryOrder == <<" ", "_", "-", ">", "/", "4", "a", "b", "f", "m", "o", "r">>

primaryWeight(c) ==
    CHOOSE i \in DOMAIN PrimaryOrder : PrimaryOrder[i] = toLowerCase(c)

caseWeight(c) == IF toLowerCase(c) = c THEN 0 ELSE 1

RECURSIVE compareWeights(_, _)
\* lexicographic comparison of two weight sequences: -1, 0 or 1
compareWeights(x, y) ==
    IF x = <<>> THEN (IF y = <<>> THEN 0 ELSE -1)
    ELSE IF y = <<>> THEN 1
    ELSE IF Head(x) < Head(y) THEN -1
    ELSE IF Head(x) > Head(y) THEN 1
    ELSE compareWeights(Tail(x), Tail(y))

localeCompare(a, b) ==
    LET primary == compareWeights([i \in DOMAIN a |-> primaryWeight(a[i])],
                                  [i \in DOMAIN b |-> primaryWeight(b[i])])
    IN IF primary # 0 THEN primary
       ELSE compareWeights([i \in DOMAIN a |-> caseWeight(a[i])],
                           [i \in DOMAIN b |-> caseWeight(b[i])])

\* Array.prototype.sort with a comparator: a stable sort
sortBy(items, compare(_, _)) ==
    LET pos(i) == 1 + Cardinality({j \in DOMAIN items :
                       \/ compare(items[j], items[i]) < 0
                       \/ compare(items[j], items[i]) = 0 /\ j < i})
    IN [k \in DOMAIN items |-> items[CHOOSE i \in DOMAIN items : pos(i) = k]]

capitalize(segment) == <<toUpperCase(Head(segment))>> \o Tail(segment)

humanizeKey(key) ==
    LET segments == SelectSeq(splitKey(key, <<>>, <<>>), LAMBDA s : s # <<>>)
    IN JoinWith([i \in DOMAIN segments |-> capitalize(segments[i])], <<" ">>)

(***************************************************************************)
(* JSON values of the taxonomy document.  A value is an array of items, an *)
(* object (an ordered list of key/value entries with distinct keys) or     *)
(* anything else (null, a number, a string).                               *)
(***************************************************************************)
StringItem(v) == [t |-> "string", v |-> v]

NumberItem(v) == [t |-> "number", v |-> v]

ArrayValue(items) == [kind |-> "array", items |-> items, entries |-> <<>>]

ObjectValue(entries) == [kind |-> "object", items |-> <<>>, entries |-> entries]

OtherValue == [kind |-> "other", items |-> <<>>, entries |-> <<>>]

Entry(key, value) == [key |-> key, value |-> value]

\* the string entries of a leaf array, in order:
\* value.filter((code): code is string => typeof code === 'string')
stringCodes(items) ==
    LET kept == SelectSeq(items, LAMBDA it : it.t = "string")
    IN [i \in DOMAIN kept |-> kept[i].v]

(***************************************************************************)
(* Category Tree Builder                                                   *)
(***************************************************************************)
CategoryNode(id, label, codes, ownCodes, children) ==
    [id |-> id, label |-> label, codes |-> codes, ownCodes |-> ownCodes,
     children |-> children]

RECURSIVE buildCategoryTreeKeepingRepeats(_, _)
buildCategoryTreeKeepingRepeats(node, path) ==
    IF node.kind # "object" THEN <<>>
    ELSE [i \in DOMAIN node.entries |->
            LET key == node.entries[i].key
                value == node.entries[i].value
                currentPath == Append(path, key)
                id == JoinWith(currentPath, <<"/">>)
                label == humanizeKey(key)
            IN IF value.kind = "array"
               THEN LET ownCodes == stringCodes(value.items)
                    IN CategoryNode(id, label, ownCodes, ownCodes, <<>>)
               ELSE LET children ==
                            buildCategoryTreeKeepingRepeats(value, currentPath)
                        codes == Concat([j \in DOMAIN children |->
                                            children[j].codes])
                    IN CategoryNode(id, label, codes, <<>>, children)]

RECURSIVE buildCategoryTree(_, _)
buildCategoryTree(node, path) ==
    IF node.kind # "object" THEN <<>>
    ELSE [i \in DOMAIN node.entries |->
            LET key == node.entries[i].key
                value == node.entries[i].value
                currentPath == Append(path, key)
                id == JoinWith(currentPath, <<"/">>)
                label == humanizeKey(key)
            IN IF value.kind = "array"
               THEN LET ownCodes == dedupe(stringCodes(value.items))
                    IN CategoryNode(id, label, ownCodes, ownCodes, <<>>)
               ELSE LET children == buildCategoryTree(value, currentPath)
                        codes == dedupe(Concat([j \in DOMAIN children |->
                                                   children[j].codes]))
                    IN CategoryNode(id, label, codes, <<>>, children)]

(***************************************************************************)
(* Category Index                                                          *)
(***************************************************************************)
\* map[key] = value on a plain object used as a dictionary
Put(map, key, value) ==
    [k \in DOMAIN map \cup {key} |-> IF k = key THEN value ELSE map[k]]

EmptyMap == [k \in {} |-> <<>>]

RECURSIVE flattenVisit(_, _), flattenForEach(_, _)
\* visit of flattenCategoryCodes: record the node, then its children in order
flattenVisit(map, node) ==
    flattenForEach(Put(map, node.id, node.codes), node.children)

flattenForEach(map, nodes) ==
    IF nodes = <<>> THEN map
    ELSE flattenForEach(flattenVisit(map, Head(nodes)), Tail(nodes))

flattenCategoryCodes(nodes) == flattenForEach(EmptyMap, nodes)

\* the separator of nextPath.join(' > ')
BreadcrumbSeparator == <<" ", ">", " ">>

SetAddAlways(set, x) == Append(set, x)

\* Set.prototype.add on an insertion-ordered set kept as a sequence
SetAdd(set, x) == IF x \in Range(set) THEN set ELSE Append(set, x)

RECURSIVE addCodes(_, _, _)
\* node.ownCodes.forEach((code) => { map[code] ??= new Set(); map[code].add(label) })
addCodes(map, codes, label) ==
    IF codes = <<>> THEN map
    ELSE LET code == Head(codes)
             old == IF code \in DOMAIN map THEN map[code] ELSE <<>>
         IN addCodes(Put(map, code, SetAdd(old, label)), Tail(codes), label)

RECURSIVE pathsVisit(_, _, _), pathsForEach(_, _, _)
pathsVisit(map, node, pathLabels) ==
    LET nextPath == Append(pathLabels, node.label)
        label == JoinWith(nextPath, BreadcrumbSeparator)
        own == IF Len(node.ownCodes) # 0
               THEN addCodes(map, node.ownCodes, label)
               ELSE map
    IN pathsForEach(own, node.children, nextPath)

pathsForEach(map, nodes, pathLabels) ==
    IF nodes = <<>> THEN map
    ELSE pathsForEach(pathsVisit(map, Head(nodes), pathLabels), Tail(nodes),
                      pathLabels)

buildCodeToCategoryPaths(nodes) ==
    LET map == pathsForEach(EmptyMap, nodes, <<>>)
    IN [code \in DOMAIN map |-> sortBy(map[code], localeCompare)]

(***************************************************************************)
(* Numbers and their text.  Thickness values are naturals; the catalogue   *)
(* may carry one as a number or as its decimal text.                       *)
(***************************************************************************)
Digits == <<"0", "1", "2", "3", "4", "5", "6", "7", "8", "9">>

digitValue(c) == (CHOOSE i \in DOMAIN Digits : Digits[i] = c) - 1

RECURSIVE parseDigits(_, _)
parseDigits(text, acc) ==
    IF text = <<>> THEN acc
    ELSE parseDigits(Tail(text), 10 * acc + digitValue(Head(text)))

NumberValue(n) == [t |-> "number", n |-> n, s |-> <<>>]

TextValue(s) == [t |-> "string", n |-> 0, s |-> s]

\* Number(value): a number is itself, decimal text is parsed
Number(value) == IF value.t = "number" THEN value.n ELSE parseDigits(value.s, 0)

RECURSIVE String(_)
\* String(n) for a natural number: its decimal digits, no leading zero
String(n) ==
    IF n < 10 THEN <<Digits[n + 1]>>
    ELSE Append(String(n \div 10), Digits[(n % 10) + 1])

(***************************************************************************)
(* Catalog Normalizer                                                      *)
(***************************************************************************)
LayerOption(id, label, layerThickness, scene) ==
    [id |-> id, label |-> label, layerThickness |-> layerThickness,
     scene |-> scene]

RECURSIVE collectSettingsLastWins(_, _)
collectSettingsLastWins(thicknessMap, settings) ==
    IF settings = <<>> THEN thicknessMap
    ELSE LET setting == Head(settings)
             thickness == Number(setting.scene_settings.layer_thickness_mm)
             option ==
                 [id |-> setting.scene_settings.material_code \o <<"-">>
                             \o String(thickness),
                  label |-> setting.label,
                  layerThickness |-> thickness,
                  scene |-> [machine_type |-> setting.scene_settings.machine_type,
                             material_code |->
                                 setting.scene_settings.material_code,
                             layer_thickness_mm |->
                                 setting.scene_settings.layer_thickness_mm]]
         IN collectSettingsLastWins(
                IF \E o \in Range(thicknessMap) : o.layerThickness = thickness
                THEN [k \in DOMAIN thicknessMap |->
                         IF thicknessMap[k].layerThickness = thickness
                         THEN option ELSE thicknessMap[k]]
                ELSE Append(thicknessMap, option),
                Tail(settings))

RECURSIVE collectSettings(_, _)
\* material.material_settings.forEach: the first setting of each thickness
\* enters thicknessMap, in insertion order
collectSettings(thicknessMap, settings) ==
    IF settings = <<>> THEN thicknessMap
    ELSE LET setting == Head(settings)
             thickness == Number(setting.scene_settings.layer_thickness_mm)
             has == \E o \in Range(thicknessMap) : o.layerThickness = thickness
             option ==
                 LayerOption(
                     setting.scene_settings.material_code \o <<"-">>
                         \o String(thickness),
                     setting.label,
                     thickness,
                     [machine_type |-> setting.scene_settings.machine_type,
                      material_code |-> setting.scene_settings.material_code,
                      layer_thickness_mm |->
                          setting.scene_settings.layer_thickness_mm])
         IN collectSettings(IF has THEN thicknessMap
                            ELSE Append(thicknessMap, option),
                            Tail(settings))

compareThickness(a, b) == a.layerThickness - b.layerThickness

compareLabel(a, b) == localeCompare(a.label, b.label)

sortSettings(thicknessMap) == sortBy(thicknessMap, compareThickness)

normalizeMaterial(material, codeToPaths) ==
    LET thicknessMap == collectSettings(<<>>, material.material_settings)
        materialCode ==
            IF material.material_settings # <<>>
            THEN material.material_settings[1].scene_settings.material_code
            ELSE material.label
    IN [code |-> materialCode,
        label |-> material.label,
        description |-> material.description,
        categoryPaths |-> IF materialCode \in DOMAIN codeToPaths
                          THEN codeToPaths[materialCode] ELSE <<>>,
        settings |-> sortSettings(thicknessMap)]

isAlphanumeric(c) == c \in DOMAIN UpperOf \/ c \in Range(Digits)

RECURSIVE slugify(_, _)
\* label.toLowerCase().replace(/[^a-z0-9]+/g, '-'); inRun: the previous
\* character was replaced already
slugify(label, inRun) ==
    IF label = <<>> THEN <<>>
    ELSE LET c == toLowerCase(Head(label))
         IN IF isAlphanumeric(c) THEN <<c>> \o slugify(Tail(label), FALSE)
            ELSE IF inRun THEN slugify(Tail(label), TRUE)
            ELSE <<"-">> \o slugify(Tail(label), TRUE)

normalizePrinter(printer, codeToPaths) ==
    LET normalized == [i \in DOMAIN printer.materials |->
                          normalizeMaterial(printer.materials[i], codeToPaths)]
        materials == sortBy(SelectSeq(normalized, LAMBDA m : Len(m.settings) > 0),
                            compareLabel)
        printerId == IF printer.supported_machine_type_ids # <<>>
                     THEN printer.supported_machine_type_ids[1]
                     ELSE slugify(printer.label, FALSE)
    IN [id |-> printerId,
        label |-> printer.label,
        machineTypeIds |-> printer.supported_machine_type_ids,
        productNames |-> printer.supported_product_names,
        materials |-> materials]

buildPrinters(data, codeToPaths) ==
    LET normalized == [i \in DOMAIN data.printer_types |->
                          normalizePrinter(data.printer_types[i], codeToPaths)]
    IN sortBy(SelectSeq(normalized, LAMBDA p : Len(p.materials) > 0),
              compareLabel)

\* the first index whose element satisfies the test, 0 when there is none
\* (Array.prototype.find returning undefined)
findIndex(items, test(_)) ==
    IF \E i \in DOMAIN items : test(items[i])
    THEN CHOOSE i \in DOMAIN items :
             test(items[i]) /\ \A j \in 1..(i - 1) : ~test(items[j])
    ELSE 0

DEFAULT_PRINTER_LABEL == <<"F", "o", "r", "m", " ", "4">>

defaultPrinterId(list) ==
    LET preferred == findIndex(list, LAMBDA p : p.label = DEFAULT_PRINTER_LABEL)
    IN IF preferred # 0 THEN list[preferred].id
       ELSE IF list # <<>> THEN list[1].id
       ELSE <<>>

(***************************************************************************)
(* Bounded taxonomy documents: every nested document with at most MaxNodes *)
(* keys in all, keys drawn from KeyPool and leaf arrays from LeafArrays.   *)
(* The keys include two that humanize to the same label ("a-b", "a_b") and *)
(* one that contains the id separator ("a-b/a_b").                         *)
(***************************************************************************)
MaxNodes == 3

KeyPool ==
    {<<"a", "-", "b">>,
     <<"a", "_", "b">>,
     <<"a", "-", "b", "/", "a", "_", "b">>}

LeafArrays ==
    {<<>>,
     <<StringItem(<<"X">>)>>,
     <<NumberItem(<<"7">>), StringItem(<<"Y">>), StringItem(<<"X">>), StringItem(<<"Y">>)>>}

\* EntriesOfSize[n]: the entry lists (with distinct keys) that hold n keys in all
EntriesOfSize[n \in 0..MaxNodes] ==
    IF n = 0 THEN {<<>>}
    ELSE UNION {
           LET values == (IF k = 1 THEN {ArrayValue(a) : a \in LeafArrays} ELSE {})
                         \cup {ObjectValue(es) : es \in EntriesOfSize[k - 1]}
           IN UNION {{<<Entry(key, value)>> \o rest :
                        value \in values,
                        rest \in {r \in EntriesOfSize[n - k] :
                                    \A i \in DOMAIN r : r[i].key # key}}
                     : key \in KeyPool}
           : k \in 1..n}

TaxonomyDocuments ==
    {OtherValue, ArrayValue(<<StringItem(<<"X">>)>>)}
    \cup UNION {{ObjectValue(es) : es \in EntriesOfSize[n]} : n \in 0..MaxNodes}

(***************************************************************************)
(* Module load: page.tsx:205-207, one step per module-level constant       *)
(***************************************************************************)
NoSelectionYet ==
    /\ selectedPrinterId = <<>>
    /\ selectedCategoryIds = <<>>
    /\ selectedMaterialCode = <<>>
    /\ selectedThickness = <<>>
    /\ copyState = "idle"
    /\ writes = <<>>
    /\ timers = <<>>
    /\ last = [kind |-> "mount", printerId |-> <<>>, categoryIds |-> <<>>,
               code |-> <<>>, thickness |-> <<>>]

InitTree ==
    /\ hierarchyData \in TaxonomyDocuments
    /\ materialsData = [printer_types |-> <<>>]
    /\ categoryTree = <<>>
    /\ categoryCodeMap = EmptyMap
    /\ codeToCategoryPaths = EmptyMap
    /\ printers = <<>>
    /\ pc = "load"
    /\ NoSelectionYet

LoadCategoryTree ==
    /\ pc = "load"
    /\ categoryTree' = buildCategoryTree(hierarchyData, <<>>)
    /\ pc' = "tree"
    /\ UNCHANGED <<hierarchyData, materialsData, categoryCodeMap,
                   codeToCategoryPaths, printers, selectionVars, copyVars, last>>

LoadCategoryCodeMap ==
    /\ pc = "tree"
    /\ categoryCodeMap' = flattenCategoryCodes(categoryTree)
    /\ pc' = "codes"
    /\ UNCHANGED <<hierarchyData, materialsData, categoryTree,
                   codeToCategoryPaths, printers, selectionVars, copyVars, last>>

LoadCodeToCategoryPaths ==
    /\ pc = "codes"
    /\ codeToCategoryPaths' = buildCodeToCategoryPaths(categoryTree)
    /\ pc' = "paths"
    /\ UNCHANGED <<hierarchyData, materialsData, categoryTree, categoryCodeMap,
                   printers, selectionVars, copyVars, last>>

NextTree == LoadCategoryTree \/ LoadCategoryCodeMap \/ LoadCodeToCategoryPaths

SpecTree == InitTree /\ [][NextTree]_vars

(***************************************************************************)
(* Derived views of the page, page.tsx:406-480                             *)
(***************************************************************************)
selectedPrinterIndex ==
    findIndex(printers, LAMBDA printer : printer.id = selectedPrinterId)

HasSelectedPrinter == selectedPrinterIndex # 0

selectedPrinter == printers[selectedPrinterIndex]

codesOfFilter(id) ==
    IF id \in DOMAIN categoryCodeMap THEN Range(categoryCodeMap[id]) ELSE {}

allowedCodesAllOf(ids) ==
    {code \in UNION {codesOfFilter(id) : id \in Range(ids)} :
        \A id \in Range(ids) : code \in codesOfFilter(id)}

\* the set filled by selectedCategoryIds.forEach(... allowedCodes.add(code))
allowedCodes(ids) == UNION {codesOfFilter(id) : id \in Range(ids)}

\* the filteredMaterials memo, for the given selected category ids
filteredMaterialsWith(ids) ==
    IF ~HasSelectedPrinter THEN <<>>
    ELSE IF Len(ids) = 0 THEN selectedPrinter.materials
    ELSE SelectSeq(selectedPrinter.materials,
                   LAMBDA material : material.code \in allowedCodes(ids))

filteredMaterials == filteredMaterialsWith(selectedCategoryIds)

selectedMaterialIndex ==
    findIndex(filteredMaterials,
              LAMBDA material : material.code = selectedMaterialCode)

HasSelectedMaterial == selectedMaterialIndex # 0

selectedMaterial == filteredMaterials[selectedMaterialIndex]

categoryCounts ==
    IF ~HasSelectedPrinter THEN EmptyMap
    ELSE LET printerCodes ==
                 {material.code : material \in Range(selectedPrinter.materials)}
         IN [id \in DOMAIN categoryCodeMap |->
                Cardinality({i \in DOMAIN categoryCodeMap[id] :
                               categoryCodeMap[id][i] \in printerCodes})]

thicknessOptionIndex ==
    IF ~HasSelectedMaterial THEN 0
    ELSE findIndex(selectedMaterial.settings,
                   LAMBDA setting :
                       String(setting.layerThickness) = selectedThickness)

HasThicknessOption == thicknessOptionIndex # 0

thicknessOption == selectedMaterial.settings[thicknessOptionIndex]

repairedMaterialCodeKept == selectedMaterialCode

repairedMaterialCodeLast ==
    IF ~HasSelectedPrinter THEN <<>>
    ELSE IF \E material \in Range(filteredMaterials) :
                material.code = selectedMaterialCode
         THEN selectedMaterialCode
         ELSE IF filteredMaterials # <<>>
              THEN filteredMaterials[Len(filteredMaterials)].code
              ELSE <<>>

\* what the selected-material effect leaves in selectedMaterialCode
repairedMaterialCode ==
    IF ~HasSelectedPrinter THEN <<>>
    ELSE IF \E material \in Range(filteredMaterials) :
                material.code = selectedMaterialCode
         THEN selectedMaterialCode
         ELSE IF filteredMaterials # <<>> THEN filteredMaterials[1].code
         ELSE <<>>

repairedThicknessLast ==
    IF ~HasSelectedMaterial THEN <<>>
    ELSE IF \E setting \in Range(selectedMaterial.settings) :
                String(setting.layerThickness) = selectedThickness
         THEN selectedThickness
         ELSE String(selectedMaterial.settings[
                         Len(selectedMaterial.settings)].layerThickness)

\* what the selected-thickness effect leaves in selectedThickness
repairedThickness ==
    IF ~HasSelectedMaterial THEN <<>>
    ELSE IF \E setting \in Range(selectedMaterial.settings) :
                String(setting.layerThickness) = selectedThickness
         THEN selectedThickness
         ELSE IF selectedMaterial.settings # <<>>
              THEN String(selectedMaterial.settings[1].layerThickness)
              ELSE <<>>

\* no repair effect has anything left to change
Settled ==
    /\ repairedMaterialCode = selectedMaterialCode
    /\ repairedThickness = selectedThickness

RECURSIVE nodeIds(_)
\* the ids of the check boxes of the category filter panel
nodeIds(nodes) ==
    IF nodes = <<>> THEN {}
    ELSE {Head(nodes).id} \cup nodeIds(Head(nodes).children)
         \cup nodeIds(Tail(nodes))

(***************************************************************************)
(* The bundled data sets the page is run on                                *)
(***************************************************************************)
RawSetting(label, machine, code, thickness) ==
    [label |-> label,
     scene_settings |-> [machine_type |-> machine, material_code |-> code,
                         layer_thickness_mm |-> thickness]]

RawMaterial(label, settings) ==
    [label |-> label, description |-> label, material_settings |-> settings]

RawPrinter(label, ids, materials) ==
    [label |-> label, supported_machine_type_ids |-> ids,
     supported_product_names |-> <<>>, materials |-> materials]

\* two printers with different materials; one thickness listed twice (once as
\* text), one material without settings, one printer without machine type id
CatalogA ==
    [printer_types |-> <<
        RawPrinter(<<"F", "o", "r", "m", " ", "4">>, <<<<"f", "4">>>>, <<
            RawMaterial(<<"b">>, <<
                RawSetting(<<"b">>, <<"f", "4">>, <<"X">>, NumberValue(2)),
                RawSetting(<<"a">>, <<"f", "4">>, <<"X">>, NumberValue(1))>>),
            RawMaterial(<<"a">>, <<
                RawSetting(<<"a">>, <<"f", "4">>, <<"Y">>, NumberValue(1)),
                RawSetting(<<"b">>, <<"f", "4">>, <<"Y">>, TextValue(<<"0", "1">>)),
                RawSetting(<<"m">>, <<"f", "4">>, <<"Y">>, NumberValue(3))>>)>>),
        RawPrinter(<<"a", " ", "b">>, <<>>, <<
            RawMaterial(<<"a">>, <<
                RawSetting(<<"a">>, <<"a">>, <<"Y">>, NumberValue(3))>>),
            RawMaterial(<<"b">>, <<
                RawSetting(<<"a">>, <<"a">>, <<"Z">>, NumberValue(2))>>),
            RawMaterial(<<"m">>, <<>>)>>)>>]

\* a printer two of whose materials share one code, and a printer whose only
\* material is in no category
CatalogB ==
    [printer_types |-> <<
        RawPrinter(<<"o">>, <<<<"o">>>>, <<
            RawMaterial(<<"a">>, <<
                RawSetting(<<"a">>, <<"o">>, <<"Z">>, NumberValue(1))>>)>>),
        RawPrinter(<<"b">>, <<<<"b">>>>, <<
            RawMaterial(<<"f">>, <<
                RawSetting(<<"a">>, <<"b">>, <<"Y">>, NumberValue(1))>>),
            RawMaterial(<<"b">>, <<
                RawSetting(<<"a">>, <<"b">>, <<"X">>, NumberValue(3)),
                RawSetting(<<"b">>, <<"b">>, <<"X">>, NumberValue(2))>>),
            RawMaterial(<<"a">>, <<
                RawSetting(<<"a">>, <<"b">>, <<"X">>, NumberValue(1)),
                RawSetting(<<"b">>, <<"b">>, <<"X">>, NumberValue(2))>>)>>)>>]

\* a catalogue none of whose printers keeps a material
CatalogC ==
    [printer_types |-> <<
        RawPrinter(<<"o">>, <<<<"o">>>>, <<RawMaterial(<<"a">>, <<>>)>>)>>]

CatalogPool == {CatalogA, CatalogB, CatalogC}

\* a branch over two leaves with disjoint codes
HierarchyA ==
    ObjectValue(<<
        Entry(<<"a", "-", "b">>, ObjectValue(<<
            Entry(<<"a", "-", "b">>, ArrayValue(<<StringItem(<<"X">>)>>)),
            Entry(<<"a", "_", "b">>,
                  ArrayValue(<<StringItem(<<"Y">>), NumberItem(<<"7">>)>>))>>))>>)

\* two leaves that share a code
HierarchyB ==
    ObjectValue(<<
        Entry(<<"a", "-", "b">>,
              ArrayValue(<<StringItem(<<"X">>), StringItem(<<"Z">>)>>)),
        Entry(<<"a", "_", "b">>,
              ArrayValue(<<StringItem(<<"Z">>), StringItem(<<"Y">>)>>))>>)

HierarchyPool == {HierarchyA, HierarchyB}

(***************************************************************************)
(* The page: state after the first render, user actions, repair effects    *)
(* and the clipboard export                                                *)
(***************************************************************************)
MaxCopies == 2

ResetDelayMs == 1500

Init ==
    /\ hierarchyData \in HierarchyPool
    /\ materialsData \in CatalogPool
    /\ categoryTree = buildCategoryTree(hierarchyData, <<>>)
    /\ categoryCodeMap = flattenCategoryCodes(categoryTree)
    /\ codeToCategoryPaths = buildCodeToCategoryPaths(categoryTree)
    /\ printers = buildPrinters(materialsData, codeToCategoryPaths)
    /\ pc = "mounted"
    /\ selectedPrinterId = defaultPrinterId(printers)
    /\ selectedCategoryIds = <<>>
    /\ selectedMaterialCode = <<>>
    /\ selectedThickness = <<>>
    /\ copyState = "idle"
    /\ writes = <<>>
    /\ timers = <<>>
    /\ last = [kind |-> "mount", printerId |-> <<>>, categoryIds |-> <<>>,
               code |-> <<>>, thickness |-> <<>>]

\* A discrete event is handled on the committed, settled render: React runs
\* the effects of a render and the renders they cause before the next event.
CanInteract == pc = "mounted" /\ Settled

Remember(kind) ==
    last' = [kind |-> kind, printerId |-> selectedPrinterId,
             categoryIds |-> selectedCategoryIds,
             code |-> selectedMaterialCode, thickness |-> selectedThickness]

\* onChange of the printer <select>, page.tsx:523
SelectPrinter ==
    /\ CanInteract
    /\ \E i \in DOMAIN printers : selectedPrinterId' = printers[i].id
    /\ Remember("printer")
    /\ UNCHANGED <<dataVars, pc, selectedCategoryIds, selectedMaterialCode,
                   selectedThickness, copyVars>>

\* the updater of toggleCategory, page.tsx:499-504
toggled(prev, id) ==
    IF id \in Range(prev) THEN SelectSeq(prev, LAMBDA item : item # id)
    ELSE Append(prev, id)

ToggleCategory ==
    /\ CanInteract
    /\ \E id \in nodeIds(categoryTree) :
           selectedCategoryIds' = toggled(selectedCategoryIds, id)
    /\ Remember("category")
    /\ UNCHANGED <<dataVars, pc, selectedPrinterId, selectedMaterialCode,
                   selectedThickness, copyVars>>

\* onChange of the material <select>, whose options are the filtered materials
SelectMaterial ==
    /\ CanInteract
    /\ \E material \in Range(filteredMaterials) :
           selectedMaterialCode' = material.code
    /\ Remember("material")
    /\ UNCHANGED <<dataVars, pc, selectedPrinterId, selectedCategoryIds,
                   selectedThickness, copyVars>>

\* onChange of the layer <select>, whose options are the selected material's
SelectThickness ==
    /\ CanInteract
    /\ HasSelectedMaterial
    /\ \E setting \in Range(selectedMaterial.settings) :
           selectedThickness' = String(setting.layerThickness)
    /\ Remember("thickness")
    /\ UNCHANGED <<dataVars, pc, selectedPrinterId, selectedCategoryIds,
                   selectedMaterialCode, copyVars>>

\* The two repair effects of one committed render, page.tsx:425-435 and
\* 462-472: both read the values of that render, their updates are batched.
RunEffects ==
    /\ pc = "mounted"
    /\ ~Settled
    /\ selectedMaterialCode' = repairedMaterialCode
    /\ selectedThickness' = repairedThickness
    /\ UNCHANGED <<dataVars, pc, selectedPrinterId, selectedCategoryIds,
                   copyVars, last>>

\* handleCopy up to the await of navigator.clipboard.writeText
handleCopy ==
    /\ Len(writes) < MaxCopies
    /\ writes' = Append(writes, [status |-> "pending", outcome |-> "none"])
    /\ UNCHANGED <<dataVars, pc, selectionVars, copyState, timers, last>>

\* the Copy Selected JSON button, enabled while a thickness option is resolved
CopySelected ==
    /\ CanInteract
    /\ HasThicknessOption
    /\ handleCopy

\* a thickness button of a card of the results grid
CopyFromGrid ==
    /\ CanInteract
    /\ \E material \in Range(filteredMaterials) :
           \E setting \in Range(material.settings) : handleCopy

copyOutcomeUncaught(result) ==
    IF result = "resolved" THEN "onSuccess" ELSE "thrown"

\* the try / catch of copySceneSettings: which callback a settled write calls
copyOutcome(result) == IF result = "resolved" THEN "onSuccess" ELSE "onError"

\* the clipboard serves the writes in the order they were issued
OldestPending ==
    CHOOSE i \in DOMAIN writes :
        /\ writes[i].status = "pending"
        /\ \A j \in 1..(i - 1) : writes[j].status # "pending"

\* the continuation of copySceneSettings and the callback of handleCopy
settle(result) ==
    LET i == OldestPending
        outcome == copyOutcome(result)
    IN /\ \E j \in DOMAIN writes : writes[j].status = "pending"
       /\ writes' = [writes EXCEPT ![i] = [status |-> result,
                                           outcome |-> outcome]]
       /\ IF outcome = "thrown"
          THEN UNCHANGED <<copyState, timers>>
          ELSE /\ copyState' = (IF outcome = "onSuccess" THEN "copied"
                                ELSE "error")
               /\ timers' = Append(timers, [write |-> i,
                                            delay |-> ResetDelayMs])
       /\ UNCHANGED <<dataVars, pc, selectionVars, last>>

\* await navigator.clipboard.writeText(payload) returns
ClipboardResolves ==
    /\ pc = "mounted"
    /\ settle("resolved")

\* await navigator.clipboard.writeText(payload) throws
ClipboardRejects ==
    /\ pc = "mounted"
    /\ settle("rejected")

\* the callback of setTimeout(() => setCopyState('idle'), 1500); equal delays
\* expire in the order they were set
TimerFires ==
    /\ pc = "mounted"
    /\ timers # <<>>
    /\ copyState' = "idle"
    /\ timers' = Tail(timers)
    /\ UNCHANGED <<dataVars, pc, selectionVars, writes, last>>

Next ==
    \/ SelectPrinter
    \/ ToggleCategory
    \/ SelectMaterial
    \/ SelectThickness
    \/ RunEffects
    \/ CopySelected
    \/ CopyFromGrid
    \/ ClipboardResolves
    \/ ClipboardRejects
    \/ TimerFires

Spec == Init /\ [][Next]_vars

(***************************************************************************)
(* Properties of the page                                                  *)
(***************************************************************************)
filteredCodes == {material.code : material \in Range(filteredMaterials)}

thicknessChoices ==
    IF HasSelectedMaterial
    THEN {String(setting.layerThickness) :
            setting \in Range(selectedMaterial.settings)}
    ELSE {}

\* C1: in every settled state the selected material code is the code of a
\* filtered material, or empty when there is none; and when the code selected
\* before the latest user action is not among the filtered materials, the
\* settled code is the code of the first filtered material.
C1_SelectedMaterialRepaired ==
    (pc = "mounted" /\ Settled) =>
        /\ filteredMaterials # <<>> => selectedMaterialCode \in filteredCodes
        /\ filteredMaterials = <<>> => selectedMaterialCode = <<>>
        /\ ~HasSelectedPrinter => selectedMaterialCode = <<>>
        /\ (last.code \notin filteredCodes /\ filteredMaterials # <<>>) =>
               selectedMaterialCode = filteredMaterials[1].code

\* a filter or printer change dropped the selected material, and the first
\* filtered material (of several) took its place
C1_Witness ==
    /\ pc = "mounted" /\ Settled
    /\ last.kind \in {"printer", "category"}
    /\ last.code # <<>>
    /\ last.code \notin filteredCodes
    /\ Len(filteredMaterials) > 1
    /\ selectedMaterialCode = filteredMaterials[1].code

\* C2: in every settled state the selected thickness is the text of the
\* thickness of one of the selected material's layer options, or empty when
\* no material is selected; and when the thickness selected before the latest
\* user action is not one of them, the settled thickness is the material's
\* first layer option, which is its smallest.
C2_SelectedThicknessRepaired ==
    (pc = "mounted" /\ Settled) =>
        /\ HasSelectedMaterial => selectedThickness \in thicknessChoices
        /\ ~HasSelectedMaterial => selectedThickness = <<>>
        /\ (HasSelectedMaterial /\ last.thickness \notin thicknessChoices) =>
               /\ selectedThickness
                    = String(selectedMaterial.settings[1].layerThickness)
               /\ \A setting \in Range(selectedMaterial.settings) :
                      selectedMaterial.settings[1].layerThickness
                          <= setting.layerThickness

\* the user moved to a material that lacks the thickness selected before and
\* that has several layer options
C2_Witness ==
    /\ pc = "mounted" /\ Settled
    /\ HasSelectedMaterial
    /\ last.kind = "material"
    /\ last.thickness # <<>>
    /\ last.thickness \notin thicknessChoices
    /\ Len(selectedMaterial.settings) > 1
    /\ selectedThickness = String(selectedMaterial.settings[1].layerThickness)

materialsMatching(id) ==
    SelectSeq(selectedPrinter.materials,
              LAMBDA material :
                  /\ id \in DOMAIN categoryCodeMap
                  /\ \E i \in DOMAIN categoryCodeMap[id] :
                         categoryCodeMap[id][i] = material.code)

\* C3: with a printer selected, the filtered materials are the printer's whole
\* material list when no filter is selected, and otherwise the printer's
\* materials, in order, whose code is in the aggregated codes of at least one
\* selected filter; two selected filters with disjoint codes give the union of
\* the results of each alone.
C3_FilteredMaterials ==
    (pc = "mounted" /\ HasSelectedPrinter) =>
        /\ selectedCategoryIds = <<>> =>
               filteredMaterials = selectedPrinter.materials
        /\ selectedCategoryIds # <<>> =>
               filteredMaterials
                 = SelectSeq(selectedPrinter.materials,
                             LAMBDA material :
                                 \E id \in Range(selectedCategoryIds) :
                                     material \in Range(materialsMatching(id)))
        /\ \A id1, id2 \in Range(selectedCategoryIds) :
               (/\ Len(selectedCategoryIds) = 2
                /\ id1 # id2
                /\ codesOfFilter(id1) \cap codesOfFilter(id2) = {}) =>
                   Range(filteredMaterials)
                     = Range(materialsMatching(id1))
                       \cup Range(materialsMatching(id2))

\* two filters with disjoint codes are selected and each matches a material
C3_Witness ==
    /\ pc = "mounted" /\ HasSelectedPrinter
    /\ Len(selectedCategoryIds) = 2
    /\ codesOfFilter(selectedCategoryIds[1])
         \cap codesOfFilter(selectedCategoryIds[2]) = {}
    /\ materialsMatching(selectedCategoryIds[1]) # <<>>
    /\ materialsMatching(selectedCategoryIds[2]) # <<>>
    /\ Len(filteredMaterials) = 2

\* the latest user action was a printer switch, made with a filter and a
\* material selected, and the new filtered list lacks that material's code
PrinterSwitchDroppedMaterial ==
    /\ last.kind = "printer"
    /\ last.categoryIds # <<>>
    /\ last.code # <<>>
    /\ last.code \notin filteredCodes

\* C4: once settled after such a printer switch, the selected material is the
\* first material of the new filtered list (empty if the list is empty), the
\* selected thickness is a thickness of that material (empty if there is
\* none), and the selected category filters are those of before the switch.
C4_PrinterSwitch ==
    (pc = "mounted" /\ Settled /\ PrinterSwitchDroppedMaterial) =>
        /\ selectedMaterialCode
             = (IF filteredMaterials # <<>> THEN filteredMaterials[1].code
                ELSE <<>>)
        /\ filteredMaterials # <<>> =>
               /\ selectedMaterialIndex = 1
               /\ selectedThickness
                    \in {String(setting.layerThickness) :
                           setting \in Range(filteredMaterials[1].settings)}
        /\ filteredMaterials = <<>> => selectedThickness = <<>>
        /\ selectedCategoryIds = last.categoryIds

C4_Witness ==
    /\ pc = "mounted" /\ Settled /\ PrinterSwitchDroppedMaterial
    /\ filteredMaterials # <<>>
    /\ selectedMaterialCode = filteredMaterials[1].code
    /\ selectedThickness # <<>>

\* a second witness of C4's other branch, the new filtered list being empty
PrinterSwitchToEmptyList ==
    /\ pc = "mounted" /\ Settled /\ PrinterSwitchDroppedMaterial
    /\ filteredMaterials = <<>>

pendingWrites == {i \in DOMAIN writes : writes[i].status = "pending"}

hasTimer(i) == \E k \in DOMAIN timers : timers[k].write = i

\* C5: the step in which a clipboard write rejects sets the status to "error",
\* is caught (the error callback runs, nothing is thrown), issues no new
\* write, sets one reset timer of 1500 ms and leaves the four selections
\* alone; the step in which a reset timer fires sets the status to "idle" and
\* changes neither the selections nor the writes.
C5_RejectedWrite ==
    [][/\ \A i \in DOMAIN writes :
              (writes[i].status = "pending" /\ writes'[i].status = "rejected") =>
                  /\ copyState' = "error"
                  /\ writes'[i].outcome = "onError"
                  /\ Len(writes') = Len(writes)
                  /\ pendingWrites' = pendingWrites \ {i}
                  /\ timers' = Append(timers, [write |-> i, delay |-> 1500])
                  /\ UNCHANGED selectionVars
       /\ Len(timers') < Len(timers) =>
              /\ copyState' = "idle"
              /\ UNCHANGED <<selectionVars, writes>>]_vars

\* a write was rejected, its reset timer has fired and the status is idle again
C5_Witness ==
    /\ copyState = "idle"
    /\ \E i \in DOMAIN writes :
           /\ writes[i].status = "rejected"
           /\ writes[i].outcome = "onError"
           /\ ~hasTimer(i)

\* C6: once the latest-issued write has completed, and until its own reset
\* timer fires, the status shows that write's outcome.
C6_LatestWriteWins ==
    (/\ writes # <<>>
     /\ writes[Len(writes)].status # "pending"
     /\ hasTimer(Len(writes))) =>
        copyState = (IF writes[Len(writes)].status = "resolved" THEN "copied"
                     ELSE "error")

\* C7: at most one clipboard write is outstanding at any time.
C7_OneOutstandingWrite == Cardinality(pendingWrites) <= 1

\* C8: the occurrence count of every category node is the number of the
\* selected printer's materials whose code is in the node's aggregated codes.
C8_CountsMaterials ==
    (pc = "mounted" /\ HasSelectedPrinter) =>
        \A id \in DOMAIN categoryCodeMap :
            categoryCounts[id]
              = Cardinality({i \in DOMAIN selectedPrinter.materials :
                               selectedPrinter.materials[i].code
                                   \in Range(categoryCodeMap[id])})

\* what the counts are: the number of distinct codes of the node that some
\* material of the selected printer carries
CountsDistinctCodes ==
    (pc = "mounted" /\ HasSelectedPrinter) =>
        \A id \in DOMAIN categoryCodeMap :
            categoryCounts[id]
              = Cardinality(Range(categoryCodeMap[id])
                            \cap {material.code :
                                    material \in Range(selectedPrinter.materials)})

(***************************************************************************)
(* The taxonomy document read directly, for stating the index properties   *)
(***************************************************************************)
RECURSIVE NodesOf(_, _)
\* every key of the document with its key path from the root and its value
NodesOf(value, path) ==
    IF value.kind # "object" THEN {}
    ELSE UNION {{[path |-> Append(path, e.key), value |-> e.value]}
                \cup NodesOf(e.value, Append(path, e.key))
                : e \in Range(value.entries)}

DocNodes == NodesOf(hierarchyData, <<>>)

LeafCodes(n) ==
    IF n.value.kind = "array"
    THEN {it.v : it \in {x \in Range(n.value.items) : x.t = "string"}}
    ELSE {}

IsPrefix(p, q) == Len(p) <= Len(q) /\ SubSeq(q, 1, Len(p)) = p

IdOf(path) == JoinWith(path, <<"/">>)

BreadcrumbOf(path) ==
    JoinWith([i \in DOMAIN path |-> humanizeKey(path[i])], BreadcrumbSeparator)

\* the codes of the leaf arrays at or below the node
CodesAtOrBelow(n) ==
    UNION {LeafCodes(l) : l \in {x \in DocNodes : IsPrefix(n.path, x.path)}}

\* the key paths of the leaves that hold the code in their array
LeafAncestries(code) == {n.path : n \in {x \in DocNodes : code \in LeafCodes(x)}}

AllLeafCodes == UNION {LeafCodes(n) : n \in DocNodes}

UniqueIds == \A m, n \in DocNodes : IdOf(m.path) = IdOf(n.path) => m = n

StrictlySorted(list) ==
    \A i, j \in DOMAIN list : i < j => localeCompare(list[i], list[j]) < 0

\* C9: in the index of every taxonomy document, the aggregated codes recorded
\* for a node are exactly the codes of the leaf arrays at or below that node:
\* every code of a leaf array is in the set of the leaf and of each ancestor,
\* and in the set of no other node.
C9_AggregatedCodes ==
    pc \in {"codes", "paths"} =>
        \A n \in DocNodes :
            /\ IdOf(n.path) \in DOMAIN categoryCodeMap
            /\ Range(categoryCodeMap[IdOf(n.path)]) = CodesAtOrBelow(n)

\* what does hold: the same statement for documents whose node ids are unique
AggregatedCodesWhenIdsUnique ==
    (pc \in {"codes", "paths"} /\ UniqueIds) =>
        \A n \in DocNodes :
            /\ IdOf(n.path) \in DOMAIN categoryCodeMap
            /\ Range(categoryCodeMap[IdOf(n.path)]) = CodesAtOrBelow(n)

\* C10 as stated: the breadcrumb list of a code owned by several leaves is
\* sorted, has no duplicates and holds one breadcrumb per distinct key path.
C10_OnePerKeyPath ==
    pc = "paths" =>
        \A code \in AllLeafCodes :
            Cardinality(LeafAncestries(code)) > 1 =>
                /\ code \in DOMAIN codeToCategoryPaths
                /\ StrictlySorted(codeToCategoryPaths[code])
                /\ Len(codeToCategoryPaths[code])
                     = Cardinality(LeafAncestries(code))

\* C10 as amended: the breadcrumb list of a code owned by several leaves is
\* sorted, has no duplicates and holds exactly the distinct breadcrumb
\* strings of those leaves: key paths that humanize to the same breadcrumb
\* share one entry.
C10_OnePerBreadcrumb ==
    pc = "paths" =>
        \A code \in AllLeafCodes :
            Cardinality(LeafAncestries(code)) > 1 =>
                /\ code \in DOMAIN codeToCategoryPaths
                /\ StrictlySorted(codeToCategoryPaths[code])
                /\ Range(codeToCategoryPaths[code])
                     = {BreadcrumbOf(p) : p \in LeafAncestries(code)}

\* a code owned by three leaves, two of which humanize to the same breadcrumb
C10_Witness ==
    /\ pc = "paths"
    /\ \E code \in AllLeafCodes :
           /\ Cardinality(LeafAncestries(code)) = 3
           /\ Len(codeToCategoryPaths[code]) = 2

(***************************************************************************)
(* The catalogue normaliser on bounded raw materials: page.tsx:208 run on  *)
(* a printer whose first material has every list of at most MaxSettings    *)
(* settings drawn from SettingPool (two labels, two codes, thickness 1 as  *)
(* a number and as the text "01", thickness 2).                            *)
(***************************************************************************)
MaxSettings == 3

SettingPool ==
    {RawSetting(label, <<"f", "4">>, code, thickness) :
        label \in {<<"a">>, <<"b">>},
        code \in {<<"X">>, <<"Y">>},
        thickness \in {NumberValue(1), NumberValue(2), TextValue(<<"0", "1">>)}}

SettingLists == UNION {[1..n -> SettingPool] : n \in 0..MaxSettings}

RawCatalogs ==
    {[printer_types |-> <<
         RawPrinter(<<"F", "o", "r", "m", " ", "4">>, <<<<"f", "4">>>>, <<
             RawMaterial(<<"b">>, settings),
             RawMaterial(<<"a">>, <<
                 RawSetting(<<"m">>, <<"f", "4">>, <<"Y">>, NumberValue(2))>>)>>)>>]
     : settings \in SettingLists}

InitCatalog ==
    /\ hierarchyData = HierarchyA
    /\ materialsData \in RawCatalogs
    /\ categoryTree = buildCategoryTree(hierarchyData, <<>>)
    /\ categoryCodeMap = flattenCategoryCodes(categoryTree)
    /\ codeToCategoryPaths = buildCodeToCategoryPaths(categoryTree)
    /\ printers = <<>>
    /\ pc = "paths"
    /\ NoSelectionYet

\* const printers = buildPrinters(materialsData, codeToCategoryPaths)
LoadPrinters ==
    /\ pc = "paths"
    /\ printers' = buildPrinters(materialsData, codeToCategoryPaths)
    /\ pc' = "printers"
    /\ UNCHANGED <<hierarchyData, materialsData, categoryTree, categoryCodeMap,
                   codeToCategoryPaths, selectionVars, copyVars, last>>

NextCatalog == LoadPrinters

SpecCatalog == InitCatalog /\ [][NextCatalog]_vars

\* the raw materials of the catalogue that have at least one setting
RawMaterialsWithSettings ==
    {raw \in UNION {Range(printer.materials) :
                      printer \in Range(materialsData.printer_types)} :
        raw.material_settings # <<>>}

rawThickness(raw, i) ==
    Number(raw.material_settings[i].scene_settings.layer_thickness_mm)

\* the first setting of the raw material, in input order, with the thickness
firstSettingAt(raw, thickness) ==
    raw.material_settings[
        CHOOSE i \in DOMAIN raw.material_settings :
            /\ rawThickness(raw, i) = thickness
            /\ \A j \in 1..(i - 1) : rawThickness(raw, j) # thickness]

\* the normalized material keeps, per numeric thickness of the raw material,
\* one option that carries the label and scene values of the first setting
KeepsFirstPerThickness(raw, material) ==
    /\ \A i, j \in DOMAIN material.settings :
           i # j => material.settings[i].layerThickness
                      # material.settings[j].layerThickness
    /\ {option.layerThickness : option \in Range(material.settings)}
         = {rawThickness(raw, i) : i \in DOMAIN raw.material_settings}
    /\ \A option \in Range(material.settings) :
           LET first == firstSettingAt(raw, option.layerThickness)
           IN /\ option.label = first.label
              /\ option.scene.machine_type = first.scene_settings.machine_type
              /\ option.scene.material_code = first.scene_settings.material_code
              /\ option.scene.layer_thickness_mm
                   = first.scene_settings.layer_thickness_mm

\* C11: every raw material with settings has a normalized material whose layer
\* options have pairwise distinct numeric thickness, one per thickness of the
\* raw settings, each with the label and the three scene values of the first
\* setting, in input order, of that thickness.
C11_FirstSettingPerThickness ==
    pc = "printers" =>
        \A raw \in RawMaterialsWithSettings :
            \E printer \in Range(printers) :
                \E material \in Range(printer.materials) :
                    /\ material.label = raw.label
                    /\ KeepsFirstPerThickness(raw, material)

\* a raw material lists one thickness three times, as number and as text, with
\* differing labels and codes, and its normalized material keeps one option
C11_Witness ==
    /\ pc = "printers"
    /\ \E raw \in RawMaterialsWithSettings :
           /\ Len(raw.material_settings) = 3
           /\ \A i \in 1..3 : rawThickness(raw, i) = 1
           /\ raw.material_settings[1].scene_settings.layer_thickness_mm
                = TextValue(<<"0", "1">>)
           /\ raw.material_settings[2].scene_settings.layer_thickness_mm
                = NumberValue(1)
           /\ raw.material_settings[1].label # raw.material_settings[2].label
           /\ raw.material_settings[1].scene_settings.material_code
                # raw.material_settings[3].scene_settings.material_code
           /\ \E printer \in Range(printers) :
                  \E material \in Range(printer.materials) :
                      /\ material.label = raw.label
                      /\ Len(material.settings) = 1

(***************************************************************************)
(* The life of the category tree: the module constants are built from a    *)
(* generated taxonomy document, the page mounts, and the four selection    *)
(* actions and the repair effects run on it.                               *)
(***************************************************************************)
MaxLifeNodes == 2

\* a branch whose two leaves share a code, one of them listing a code twice
HierarchyShared ==
    ObjectValue(<<
        Entry(<<"a", "-", "b">>, ObjectValue(<<
            Entry(<<"a", "-", "b">>, ArrayValue(<<StringItem(<<"X">>)>>)),
            Entry(<<"a", "_", "b">>,
                  ArrayValue(<<NumberItem(<<"7">>), StringItem(<<"Y">>),
                               StringItem(<<"X">>), StringItem(<<"Y">>)>>))>>))>>)

LifeDocuments ==
    {OtherValue, ArrayValue(<<StringItem(<<"X">>)>>),
     HierarchyA, HierarchyB, HierarchyShared}
    \cup UNION {{ObjectValue(es) : es \in EntriesOfSize[n]} : n \in 0..MaxLifeNodes}

\* one printer with a material of two layer options and one of a single option
LifeCatalog ==
    [printer_types |-> <<
        RawPrinter(<<"F", "o", "r", "m", " ", "4">>, <<<<"f", "4">>>>, <<
            RawMaterial(<<"b">>, <<
                RawSetting(<<"a">>, <<"f", "4">>, <<"X">>, NumberValue(2)),
                RawSetting(<<"b">>, <<"f", "4">>, <<"X">>, NumberValue(1))>>),
            RawMaterial(<<"a">>, <<
                RawSetting(<<"a">>, <<"f", "4">>, <<"Y">>, NumberValue(1))>>)>>)>>]

InitLife ==
    /\ hierarchyData \in LifeDocuments
    /\ materialsData = LifeCatalog
    /\ categoryTree = <<>>
    /\ categoryCodeMap = EmptyMap
    /\ codeToCategoryPaths = EmptyMap
    /\ printers = <<>>
    /\ pc = "load"
    /\ NoSelectionYet

\* the first render of Page: useState(defaultPrinterId), page.tsx:400
Mount ==
    /\ pc = "printers"
    /\ selectedPrinterId' = defaultPrinterId(printers)
    /\ pc' = "mounted"
    /\ UNCHANGED <<dataVars, selectedCategoryIds, selectedMaterialCode,
                   selectedThickness, copyVars, last>>

NextLife ==
    \/ LoadCategoryTree
    \/ LoadCategoryCodeMap
    \/ LoadCodeToCategoryPaths
    \/ LoadPrinters
    \/ Mount
    \/ SelectPrinter
    \/ ToggleCategory
    \/ SelectMaterial
    \/ SelectThickness
    \/ RunEffects

SpecLife == InitLife /\ [][NextLife]_vars

RECURSIVE TreeNodes(_)
\* every node of a tree, at any depth
TreeNodes(nodes) ==
    IF nodes = <<>> THEN {}
    ELSE {Head(nodes)} \cup TreeNodes(Head(nodes).children)
         \cup TreeNodes(Tail(nodes))

NoRepeats(items) ==
    \A i, j \in DOMAIN items : items[i] = items[j] => i = j

\* items without the entries that occurred earlier in the list
FirstOccurrences(items) ==
    LET keep == {i \in DOMAIN items : \A j \in 1..(i - 1) : items[j] # items[i]}
        nth[k \in 0..Len(items)] ==
            IF k = 0 THEN 0
            ELSE CHOOSE i \in keep :
                    /\ i > nth[k - 1]
                    /\ \A j \in keep : j > nth[k - 1] => i <= j
    IN [k \in 1..Cardinality(keep) |-> items[nth[k]]]

IsLeaf(node) ==
    /\ node.ownCodes # <<>>
    /\ node.children = <<>>
    /\ node.codes = node.ownCodes

IsBranch(node) ==
    /\ node.ownCodes = <<>>
    /\ node.codes = FirstOccurrences(Concat([j \in DOMAIN node.children |->
                                               node.children[j].codes]))

WellFormedNode(node) ==
    /\ IsLeaf(node) \/ IsBranch(node)
    /\ ~(node.ownCodes # <<>> /\ node.children # <<>>)
    /\ NoRepeats(node.codes)
    /\ NoRepeats(node.ownCodes)

WellFormedTree == \A node \in TreeNodes(categoryTree) : WellFormedNode(node)

\* C12: every node of the tree built from any document is a leaf (own codes,
\* no children, aggregated codes equal to the own codes) or a branch (no own
\* codes, aggregated codes the deduplicated union of the children's aggregated
\* codes); no node has own codes and children, no code list holds a code
\* twice, and no step after construction, selection steps included, changes
\* the tree.
C12_TreeWellFormedAndFixed ==
    /\ [](pc # "load" => WellFormedTree)
    /\ [][pc # "load" => categoryTree' = categoryTree]_vars

\* the page has mounted on a tree with a branch over leaves that share a code,
\* one leaf array listing a code twice, and a category has been toggled
C12_Witness ==
    /\ pc = "mounted"
    /\ last.kind = "category"
    /\ selectedCategoryIds # <<>>
    /\ \E node \in TreeNodes(categoryTree) :
           /\ Len(node.children) = 2
           /\ node.children[1].ownCodes # <<>>
           /\ Len(node.codes) < Len(node.children[1].codes)
                                  + Len(node.children[2].codes)
           /\ Len(node.codes) > Len(node.children[1].codes)
    /\ \E entry \in Range(hierarchyData.entries[1].value.entries) :
           Len(stringCodes(entry.value.items)) = 3

\* the materials of the selected printer that carry the selected code
materialsWithSelectedCode ==
    {i \in DOMAIN selectedPrinter.materials :
        selectedPrinter.materials[i].code = selectedMaterialCode}

\* C13: in every settled state with a resolved scene payload, the payload's
\* material code is the selected material code, its layer thickness is the
\* selected thickness, and the material it comes from is a material of the
\* selected printer that is the only one carrying the selected code.
C13_PayloadOfSelection ==
    (pc = "mounted" /\ Settled /\ HasThicknessOption) =>
        /\ thicknessOption.scene.material_code = selectedMaterialCode
        /\ String(Number(thicknessOption.scene.layer_thickness_mm))
             = selectedThickness
        /\ selectedMaterial \in Range(selectedPrinter.materials)
        /\ Cardinality(materialsWithSelectedCode) = 1

====
